---- MODULE Spec2Model ----
(***************************************************************************)
(* Model of the RepeatMasker utilities:                                    *)
(*   parse_repeat_masker_out.py  (cross_match + divsum parse, merge,       *)
(*                                clean divsum export)                     *)
(*   extract_repmap_props.py     (summary table parse, proportions table)  *)
(*                                                                         *)
(* Text is modelled as sequences of one-character strings, so that the     *)
(* line classification (startswith, split, isnumeric, int, float) is       *)
(* computed the way the Python code computes it.                           *)
(***************************************************************************)
EXTENDS Integers, Sequences, FiniteSets, TLC

VARIABLES
    pc,            \* position of main(): which call comes next
    crossmatch_f,  \* content of the cross_match file (sequence of lines)
    cross_gz,      \* whether the cross_match path ends with '.gz'
    divsum_f,      \* content of the divsum file (sequence of lines)
    divsum_gz,     \* whether the divsum path ends with '.gz'
    min_len,       \* args.min_length after parse_args
    gc_prompt,     \* whether the interpreter finalises unreachable files at once
    cross_res,     \* what parse_crossmatch_table left behind
    divsum_res,    \* what parse_divsum_table left behind
    merged,        \* what merge_cross_divsum left behind
    clean,         \* what clean_divsum_file left behind
    rm_table,      \* content of the summary table file (sequence of lines)
    rm_gz,         \* whether the summary table path ends with '.gz'
    rm_res,        \* what parse_rm_table left behind
    props_out      \* what print_table left behind

vars == <<pc, crossmatch_f, cross_gz, divsum_f, divsum_gz, min_len, gc_prompt,
          cross_res, divsum_res, merged, clean, rm_table, rm_gz, rm_res,
          props_out>>

-----------------------------------------------------------------------------
(* Bounds of the model *)

\* longest cross_match file, in lines, of the parser specification
MaxCrossLines == 3
\* longest divsum file, in lines, of the parser specification
MaxDivLines == 3
\* longest cross_match file of the whole-program specification
MaxMainCross == 3
\* longest divsum file of the whole-program specification
MaxMainDiv == 2
\* longest summary table, in lines
MaxRmLines == 3

-----------------------------------------------------------------------------
(* Python str / int / float primitives *)

\* value of a decimal digit character
DigitVal == ("0" :> 0) @@ ("1" :> 1) @@ ("2" :> 2) @@ ("3" :> 3) @@ ("4" :> 4)
            @@ ("5" :> 5) @@ ("6" :> 6) @@ ("7" :> 7) @@ ("8" :> 8) @@ ("9" :> 9)

\* characters str.split() treats as separators
Whitespace == {" ", "\t"}

\* str.isnumeric(): non-empty and every character numeric
IsNumeric(s) == Len(s) > 0 /\ \A i \in 1..Len(s) : s[i] \in DOMAIN DigitVal

RECURSIVE DigitsValue(_)
\* value of a string of decimal digits
DigitsValue(s) ==
    IF Len(s) = 0 THEN 0
    ELSE 10 * DigitsValue(SubSeq(s, 1, Len(s) - 1)) + DigitVal[s[Len(s)]]

\* the digits of s once an optional sign is removed
Unsigned(s) == IF Len(s) > 0 /\ s[1] \in {"-", "+"} THEN Tail(s) ELSE s

\* int(s) succeeds (otherwise it raises ValueError)
CanInt(s) == IsNumeric(Unsigned(s))

\* int(s)
IntOf(s) ==
    IF Len(s) > 0 /\ s[1] = "-" THEN 0 - DigitsValue(Unsigned(s))
    ELSE DigitsValue(Unsigned(s))

\* s.startswith(p)
StartsWith(s, p) == Len(s) >= Len(p) /\ SubSeq(s, 1, Len(p)) = p

RECURSIVE LStrip(_, _)
\* s.lstrip(c)
LStrip(s, c) == IF Len(s) > 0 /\ s[1] = c THEN LStrip(Tail(s), c) ELSE s

RECURSIVE SplitOn(_, _)
\* s.split(sep) for a one-character sep: every sep cuts, empty fields are kept
SplitOn(s, sep) ==
    IF \A i \in 1..Len(s) : s[i] # sep THEN <<s>>
    ELSE LET k == CHOOSE i \in 1..Len(s) :
                      s[i] = sep /\ \A j \in 1..(i - 1) : s[j] # sep
         IN  <<SubSeq(s, 1, k - 1)>> \o SplitOn(SubSeq(s, k + 1, Len(s)), sep)

RECURSIVE SplitWs(_)
\* s.split(): cut at runs of whitespace, no empty fields
SplitWs(s) ==
    IF \A i \in 1..Len(s) : s[i] \in Whitespace THEN <<>>
    ELSE IF s[1] \in Whitespace THEN SplitWs(Tail(s))
    ELSE LET ends == {i \in 1..Len(s) : s[i] \in Whitespace}
             k == IF ends = {} THEN Len(s) + 1
                  ELSE CHOOSE i \in ends : \A j \in ends : i <= j
         IN  <<SubSeq(s, 1, k - 1)>> \o SplitWs(SubSeq(s, k, Len(s)))

RECURSIVE Join(_, _)
\* sep.join(fields)
Join(fields, sep) ==
    IF Len(fields) = 0 THEN <<>>
    ELSE IF Len(fields) = 1 THEN fields[1]
    ELSE fields[1] \o <<sep>> \o Join(Tail(fields), sep)

-----------------------------------------------------------------------------
(* Decimal numbers and the 'g' presentation type of format() *)

\* float(s) succeeds for plain decimal notation: [sign]digits[.digits]
CanFloat(s) ==
    LET parts == SplitOn(Unsigned(s), ".")
    IN  /\ Len(parts) \in {1, 2}
        /\ \A i \in 1..Len(parts) : \A j \in 1..Len(parts[i]) :
               parts[i][j] \in DOMAIN DigitVal
        /\ \E i \in 1..Len(parts) : Len(parts[i]) > 0

\* float(s) as an exact decimal: the number m * 10^-s
FloatOf(s) ==
    LET parts == SplitOn(Unsigned(s), ".")
        frac  == IF Len(parts) = 2 THEN parts[2] ELSE <<>>
        mag   == DigitsValue(parts[1] \o frac)
    IN  [m |-> IF Len(s) > 0 /\ s[1] = "-" THEN 0 - mag ELSE mag,
         s |-> Len(frac)]

\* x / 100 on a decimal
DivHundred(x) == [m |-> x.m, s |-> x.s + 2]

\* an int as a decimal
DecOfInt(i) == [m |-> i, s |-> 0]

RECURSIVE NatStr(_)
\* str(n) for n >= 0
NatStr(n) ==
    LET d == CHOOSE c \in DOMAIN DigitVal : DigitVal[c] = n % 10
    IN  IF n < 10 THEN <<d>> ELSE NatStr(n \div 10) \o <<d>>

\* str(i) / f'{i}' for an int
IntStr(i) == IF i < 0 THEN <<"-">> \o NatStr(0 - i) ELSE NatStr(i)

\* str(None) / f'{None}'
NoneStr == <<"N", "o", "n", "e">>

RECURSIVE StripZeros(_)
\* drop trailing zeros, keeping the first digit
StripZeros(s) ==
    IF Len(s) > 1 /\ s[Len(s)] = "0" THEN StripZeros(SubSeq(s, 1, Len(s) - 1))
    ELSE s

RECURSIVE Zeros(_)
\* '0' * k
Zeros(k) == IF k <= 0 THEN <<>> ELSE <<"0">> \o Zeros(k - 1)

\* f'{x:0.<n>g}': n significant digits, fixed notation when the decimal
\* exponent X satisfies -4 <= X < n, exponent notation otherwise
FormatG(x, n) ==
    IF x.m = 0 THEN <<"0">>
    ELSE
    LET a     == IF x.m < 0 THEN 0 - x.m ELSE x.m
        sign  == IF x.m < 0 THEN <<"-">> ELSE <<>>
        D     == Len(NatStr(a))
        p     == IF D > n THEN 10 ^ (D - n) ELSE 1
        q0    == IF 2 * (a % p) >= p THEN (a \div p) + 1 ELSE a \div p
        carry == D > n /\ q0 = 10 ^ n
        q     == IF carry THEN q0 \div 10 ELSE q0
        X     == (D - 1 - x.s) + (IF carry THEN 1 ELSE 0)
        sig   == StripZeros(NatStr(q))
        ip    == IF Len(sig) >= X + 1 THEN SubSeq(sig, 1, X + 1)
                 ELSE sig \o Zeros(X + 1 - Len(sig))
        fp    == IF Len(sig) > X + 1 THEN SubSeq(sig, X + 2, Len(sig)) ELSE <<>>
        ax    == IF X < 0 THEN 0 - X ELSE X
        ex    == <<"e">> \o (IF X < 0 THEN <<"-">> ELSE <<"+">>)
                 \o (IF ax < 10 THEN <<"0">> ELSE <<>>) \o NatStr(ax)
    IN  IF X < 0 - 4 \/ X >= n
        THEN sign \o <<sig[1]>>
             \o (IF Len(sig) > 1 THEN <<".">> \o Tail(sig) ELSE <<>>) \o ex
        ELSE IF X < 0
        THEN sign \o <<"0", ".">> \o Zeros(0 - X - 1) \o sig
        ELSE sign \o ip \o (IF Len(fp) > 0 THEN <<".">> \o fp ELSE <<>>)

-----------------------------------------------------------------------------
(* parse_repeat_masker_out.py: records *)

\* rep_class.split('/')[0]
TopClass(rep_class) == SplitOn(rep_class, "/")[1]

\* RepeatDivsum.__init__
RepeatDivsum(rep_class, rep_id, abs_len, well_char_len, kimura) ==
    [r_class   |-> TopClass(rep_class),
     r_family  |-> rep_class,
     r_id      |-> rep_id,
     abs_len   |-> abs_len,
     wchar_len |-> well_char_len,
     kimura    |-> DivHundred(kimura)]

\* RepeatAnnot.__init__
RepeatAnnot(rep_name, rep_class, chromosome, start, end, strand, sw_score) ==
    [name     |-> rep_name,
     r_class  |-> TopClass(rep_class),
     r_family |-> rep_class,
     chrom    |-> chromosome,
     start    |-> start,
     end      |-> end,
     strand   |-> strand,
     score    |-> sw_score]

\* args.min_length when -m is not given
NoMinLength == 0 - 10 ^ 9

-----------------------------------------------------------------------------
(* Input file handles.  Neither parser of parse_repeat_masker_out.py calls   *)
(* close() nor uses a with block: a handle is released only when the         *)
(* interpreter finalises the file object.  With reference counting that      *)
(* happens as soon as the object is unreachable; an exception's traceback    *)
(* keeps the raising frame, and so its fh, reachable.  Without reference     *)
(* counting it happens at some later collection.                             *)

\* the handles a parser without close() has opened: open() always, and
\* gzip.open() on top of it for a '.gz' path (fh is rebound, the first
\* object is dropped unclosed)
OpenedHandles(gz) == IF gz THEN {"open", "gzip.open"} ELSE {"open"}

\* the handle fh is bound to
BoundHandle(gz) == IF gz THEN "gzip.open" ELSE "open"

\* handles still open when the parser returns or raises
UnclosedAtExit(gz, raised, prompt) ==
    IF ~prompt THEN OpenedHandles(gz)
    ELSE IF raised THEN {BoundHandle(gz)}
    ELSE {}

-----------------------------------------------------------------------------
(* parse_divsum_table *)

\* header and placeholder values of the first field
DivsumSkip ==
    { <<"C","l","a","s","s">>,
      <<"A","R","T","E","F","A","C","T">>,
      <<"S","i","m","p","l","e","_","r","e","p","e","a","t">>,
      <<"-","-","-","-","-">> }

\* the line reaches 'records += 1': not a comment, not empty, 5 tab-separated
\* fields, first field no header or placeholder
DivsumCandidate(line) ==
    /\ ~StartsWith(line, <<"#">>)
    /\ Len(line) # 0
    /\ Len(SplitOn(line, "\t")) = 5
    /\ SplitOn(line, "\t")[1] \notin DivsumSkip

\* int(fields[2]), int(fields[3]) and float(fields[4]) all succeed
DivsumConvertible(line) ==
    LET fields == SplitOn(line, "\t")
    IN  CanInt(fields[3]) /\ CanInt(fields[4]) /\ CanFloat(fields[5])

\* the RepeatDivsum built from a candidate line
DivsumRecord(line) ==
    LET fields == SplitOn(line, "\t")
    IN  RepeatDivsum(fields[1], fields[2], IntOf(fields[3]), IntOf(fields[4]),
                     FloatOf(fields[5]))

\* mutant of TooSmall: a record exactly at the threshold is discarded too
TooSmallInclusive(rec, minlen) == rec.wchar_len <= minlen

\* 'if repeat_summary.wchar_len < min_len'
TooSmall(rec, minlen) == rec.wchar_len < minlen

\* mutant of DictSet: the first record of an identifier is kept
DictSetFirst(d, key, rec) ==
    [k \in (DOMAIN d) \cup {key} |-> IF k \in DOMAIN d THEN d[k] ELSE rec]

\* divsum[key] = rec
DictSet(d, key, rec) ==
    [k \in (DOMAIN d) \cup {key} |-> IF k = key THEN rec ELSE d[k]]

\* one iteration of the for loop of parse_divsum_table
DivsumStep(st, line, minlen) ==
    IF ~DivsumCandidate(line) THEN st
    ELSE IF ~DivsumConvertible(line)
    THEN [st EXCEPT !.records = @ + 1, !.status = "ValueError"]
    ELSE LET rec == DivsumRecord(line)
         IN  IF TooSmall(rec, minlen)
             THEN [st EXCEPT !.records = @ + 1, !.discard = @ + 1]
             ELSE [st EXCEPT !.records = @ + 1,
                             !.divsum = DictSet(@, rec.r_id, rec)]

RECURSIVE DivsumLoop(_, _, _)
\* the for loop of parse_divsum_table; an exception leaves it
DivsumLoop(st, lines, minlen) ==
    IF Len(lines) = 0 \/ st.status # "running" THEN st
    ELSE DivsumLoop(DivsumStep(st, Head(lines), minlen), Tail(lines), minlen)

\* parse_divsum_table(divsum_f, min_len) under an interpreter that does or
\* does not finalise files promptly
parse_divsum_table(lines, gz, minlen, prompt) ==
    LET st0 == [status |-> "running", divsum |-> <<>>, records |-> 0,
                discard |-> 0]
        st  == DivsumLoop(st0, lines, minlen)
        raised == st.status # "running"
    IN  [status  |-> IF raised THEN st.status ELSE "returned",
         divsum  |-> st.divsum,
         records |-> st.records,
         discard |-> st.discard,
         open    |-> UnclosedAtExit(gz, raised, prompt)]

-----------------------------------------------------------------------------
(* parse_crossmatch_table *)

\* the assignments of the try block, in program order:
\* <<local variable, index into fields, converted by int()>>
TryAssignments ==
    << <<"sw_score",   0,  TRUE>>,
       <<"chromosome", 4,  FALSE>>,
       <<"start_bp",   5,  TRUE>>,
       <<"end_bp",     6,  TRUE>>,
       <<"re_name",    9,  FALSE>>,
       <<"re_class",   10, FALSE>>,
       <<"strand",     8,  FALSE>> >>

\* the local variables RepeatAnnot(...) reads after the try statement
AnnotLocals ==
    {"re_name", "re_class", "chromosome", "start_bp", "end_bp", "strand",
     "sw_score"}

\* bind a local variable
Bind(loc, var, val) ==
    [v \in (DOMAIN loc) \cup {var} |-> IF v = var THEN val ELSE loc[v]]

\* 'if strand == "C": strand = "-"'
NormStrand(strand) == IF strand = <<"C">> THEN <<"-">> ELSE strand

RECURSIVE TryBlock(_, _, _)
\* run the try block from its k-th assignment: the locals afterwards and the
\* exception that ended it ("none" when it ran to its end)
TryBlock(loc, fields, k) ==
    IF k > Len(TryAssignments)
    THEN [loc |-> Bind(loc, "strand", NormStrand(loc["strand"])),
          exc |-> "none"]
    ELSE LET var == TryAssignments[k][1]
             idx == TryAssignments[k][2] + 1
         IN  IF idx > Len(fields) THEN [loc |-> loc, exc |-> "IndexError"]
             ELSE IF TryAssignments[k][3] /\ ~CanInt(fields[idx])
             THEN [loc |-> loc, exc |-> "ValueError"]
             ELSE TryBlock(Bind(loc, var,
                                IF TryAssignments[k][3] THEN IntOf(fields[idx])
                                ELSE fields[idx]),
                           fields, k + 1)

\* the line reaches the try block: not a comment, not empty, first field
\* numeric (a line of whitespace only has no first field)
CrossData(line) ==
    /\ ~StartsWith(line, <<"#">>)
    /\ Len(line) # 0
    /\ Len(SplitWs(line)) > 0
    /\ IsNumeric(SplitWs(line)[1])

\* RepeatAnnot(re_name, re_class, chromosome, start_bp, end_bp, strand,
\* sw_score) from the locals
AnnotFromLocals(loc) ==
    RepeatAnnot(loc["re_name"], loc["re_class"], loc["chromosome"],
                loc["start_bp"], loc["end_bp"], loc["strand"], loc["sw_score"])

\* what follows the try statement: build the annotation from the locals and
\* append it
AppendAnnot(st, loc, exc, i) ==
    IF ~(AnnotLocals \subseteq DOMAIN loc)
    THEN [st EXCEPT !.records = @ + 1, !.loc = loc,
                    !.reported = IF exc = "IndexError" THEN Append(@, i) ELSE @,
                    !.status = "UnboundLocalError"]
    ELSE [st EXCEPT !.records = @ + 1, !.loc = loc,
                    !.reported = IF exc = "IndexError" THEN Append(@, i) ELSE @,
                    !.kept = @ + 1,
                    !.cross_match = Append(@, AnnotFromLocals(loc))]

\* one iteration of the for loop of parse_crossmatch_table, on line i
\* (enumerate counts from 0)
CrossStep(st, line, i) ==
    IF StartsWith(line, <<"#">>) \/ Len(line) = 0 THEN st
    ELSE IF Len(SplitWs(line)) = 0 THEN [st EXCEPT !.status = "IndexError"]
    ELSE IF ~IsNumeric(SplitWs(line)[1]) THEN st
    ELSE LET t == TryBlock(st.loc, SplitWs(line), 1)
         IN  IF t.exc = "ValueError"
             THEN [st EXCEPT !.records = @ + 1, !.loc = t.loc,
                             !.status = "ValueError"]
             ELSE AppendAnnot(st, t.loc, t.exc, i)

RECURSIVE CrossLoop(_, _, _)
\* the for loop of parse_crossmatch_table; an uncaught exception leaves it
CrossLoop(st, lines, i) ==
    IF Len(lines) = 0 \/ st.status # "running" THEN st
    ELSE CrossLoop(CrossStep(st, Head(lines), i), Tail(lines), i + 1)

\* parse_crossmatch_table(crossmatch_f)
parse_crossmatch_table(lines, gz, prompt) ==
    LET st0 == [status |-> "running", cross_match |-> <<>>, records |-> 0,
                kept |-> 0, reported |-> <<>>, loc |-> <<>>]
        st  == CrossLoop(st0, lines, 0)
        raised == st.status # "running"
    IN  [status      |-> IF raised THEN st.status ELSE "returned",
         cross_match |-> st.cross_match,
         records     |-> st.records,
         kept        |-> st.kept,
         reported    |-> st.reported,
         open        |-> UnclosedAtExit(gz, raised, prompt)]

-----------------------------------------------------------------------------
(* merge_cross_divsum *)

RECURSIVE InsertByStartUnstable(_, _)
\* mutant of InsertByStart: an annotation goes before the elements of equal
\* start, so ties come out in reverse read order
InsertByStartUnstable(sorted, a) ==
    IF Len(sorted) = 0 THEN <<a>>
    ELSE IF sorted[Len(sorted)].start < a.start THEN Append(sorted, a)
    ELSE Append(InsertByStartUnstable(SubSeq(sorted, 1, Len(sorted) - 1), a),
                sorted[Len(sorted)])

RECURSIVE InsertByStart(_, _)
\* put annotation a into a list sorted by start, after every element whose
\* start is not greater (sorted() is stable)
InsertByStart(sorted, a) ==
    IF Len(sorted) = 0 THEN <<a>>
    ELSE IF sorted[Len(sorted)].start <= a.start THEN Append(sorted, a)
    ELSE Append(InsertByStart(SubSeq(sorted, 1, Len(sorted) - 1), a),
                sorted[Len(sorted)])

RECURSIVE SortedByStart(_)
\* sorted(cross_match, key=lambda a: a.start)
SortedByStart(cross_match) ==
    IF Len(cross_match) = 0 THEN <<>>
    ELSE InsertByStart(SortedByStart(SubSeq(cross_match, 1, Len(cross_match) - 1)),
                       cross_match[Len(cross_match)])

\* divsum.get(annotation.name, None) is not None
Found(divsum, annotation) == annotation.name \in DOMAIN divsum

\* mutant of ClassAgrees: the disabled assert on the families is enabled
ClassAgreesFamily(annotation, divergence) ==
    /\ annotation.r_class = divergence.r_class
    /\ annotation.r_family = divergence.r_family

\* the assert on the top-level classes passes
ClassAgrees(annotation, divergence) == annotation.r_class = divergence.r_class

\* mutant of WellCharLenCell: wchar_len starts at 0 instead of None
WellCharLenCellZero(divsum, annotation) ==
    IF Found(divsum, annotation) THEN IntStr(divsum[annotation.name].wchar_len)
    ELSE IntStr(0)

\* the text of the WellCharLen column: wchar_len is None unless a divergence
\* record was found
WellCharLenCell(divsum, annotation) ==
    IF Found(divsum, annotation) THEN IntStr(divsum[annotation.name].wchar_len)
    ELSE NoneStr

\* the text of the Kimura column: kimura is None unless a divergence record
\* was found
KimuraCell(divsum, annotation) ==
    IF Found(divsum, annotation)
    THEN FormatG(divsum[annotation.name].kimura, 6)
    ELSE NoneStr

\* the row written for an annotation
MergedRow(divsum, annotation) ==
    [Chromosome  |-> annotation.chrom,
     StartBP     |-> IntStr(annotation.start),
     EndBP       |-> IntStr(annotation.end),
     Strand      |-> annotation.strand,
     Name        |-> annotation.name,
     Class       |-> annotation.r_class,
     Family      |-> annotation.r_family,
     WellCharLen |-> WellCharLenCell(divsum, annotation),
     Kimura      |-> KimuraCell(divsum, annotation),
     SwScore     |-> FormatG(DecOfInt(annotation.score), 6)]

\* mutant of MergeStep: an inner join, annotations without a divergence
\* record get no row
MergeStepInner(st, divsum, annotation) ==
    IF ~Found(divsum, annotation) THEN st
    ELSE IF ~ClassAgrees(annotation, divsum[annotation.name])
    THEN [st EXCEPT !.status = "AssertionError"]
    ELSE [st EXCEPT !.matches = @ + 1,
                    !.rows = Append(@, MergedRow(divsum, annotation))]

\* one iteration of the for loop of merge_cross_divsum
MergeStep(st, divsum, annotation) ==
    IF Found(divsum, annotation)
       /\ ~ClassAgrees(annotation, divsum[annotation.name])
    THEN [st EXCEPT !.status = "AssertionError"]
    ELSE [st EXCEPT !.matches = @ + 1,
                    !.rows = Append(@, MergedRow(divsum, annotation))]

RECURSIVE MergeLoop(_, _, _)
\* the for loop of merge_cross_divsum; a failed assert leaves it
MergeLoop(st, divsum, annots) ==
    IF Len(annots) = 0 \/ st.status # "running" THEN st
    ELSE MergeLoop(MergeStep(st, divsum, Head(annots)), divsum, Tail(annots))

\* merge_cross_divsum(cross_match, divsum, outdir, basename): the data rows
\* written to <basename>.repeat_masked_merged.tsv after its header
merge_cross_divsum(cross_match, divsum) ==
    LET st0 == [status |-> "running", rows |-> <<>>, matches |-> 0]
        st  == MergeLoop(st0, divsum, SortedByStart(cross_match))
    IN  [status  |-> IF st.status = "running" THEN "returned" ELSE st.status,
         header  |-> TRUE,
         rows    |-> st.rows,
         matches |-> st.matches]

-----------------------------------------------------------------------------
(* clean_divsum_file *)

\* characters of repeat identifiers, in code point order
Alphabet ==
    <<
       "\t", " ", "#", "+", "-", ".", "/", "0", "1", "2", "3", "4",
       "5", "6", "7", "8", "9", "=", "A", "B", "C", "D", "E", "F",
       "G", "H", "I", "J", "K", "L", "M", "N", "O", "P", "Q", "R",
       "S", "T", "U", "V", "W", "X", "Y", "Z", "_", "a", "b", "c",
       "d", "e", "f", "g", "h", "i", "j", "k", "l", "m", "n", "o",
       "p", "q", "r", "s", "t", "u", "v", "w", "x", "y", "z" >>

\* ord(c), up to a monotone renumbering
Ord(c) == CHOOSE i \in 1..Len(Alphabet) : Alphabet[i] = c

RECURSIVE StrLess(_, _)
\* s < t on str: lexicographic by code point
StrLess(s, t) ==
    IF Len(t) = 0 THEN FALSE
    ELSE IF Len(s) = 0 THEN TRUE
    ELSE IF s[1] # t[1] THEN Ord(s[1]) < Ord(t[1])
    ELSE StrLess(Tail(s), Tail(t))

RECURSIVE SortedKeysDescending(_)
\* mutant of SortedKeys: the keys in descending order
SortedKeysDescending(keys) ==
    IF keys = {} THEN <<>>
    ELSE LET greatest == CHOOSE k \in keys :
                             \A other \in keys \ {k} : StrLess(other, k)
         IN  <<greatest>> \o SortedKeysDescending(keys \ {greatest})

RECURSIVE SortedKeys(_)
\* sorted(divsum): the keys in ascending order
SortedKeys(keys) ==
    IF keys = {} THEN <<>>
    ELSE LET least == CHOOSE k \in keys :
                          \A other \in keys \ {k} : StrLess(k, other)
         IN  <<least>> \o SortedKeys(keys \ {least})

\* the row written for a divergence record
CleanRow(div) ==
    [Class       |-> div.r_family,
     Repeat      |-> div.r_id,
     absLen      |-> IntStr(div.abs_len),
     wellCharLen |-> IntStr(div.wchar_len),
     Kimura      |-> FormatG(div.kimura, 8)]

\* clean_divsum_file(divsum, outdir, basename): the data rows written to
\* <basename>.divsum.tsv after its header
clean_divsum_file(divsum) ==
    LET order == SortedKeys(DOMAIN divsum)
    IN  [header |-> TRUE,
         rows   |-> [i \in 1..Len(order) |-> CleanRow(divsum[order[i]])]]

-----------------------------------------------------------------------------
(* extract_repmap_props.py *)

\* RepProp.__init__
RepProp(seq_id) ==
    [seq_id |-> seq_id, total_length |-> 0, total_masked |-> 0,
     interspersed |-> 0, dna |-> 0, ltr |-> 0, line |-> 0, sine |-> 0,
     small_rna |-> 0, unclassified |-> 0]

\* the if/elif chain of parse_rm_table, in program order:
\* <<line prefix, RepProp attribute, index into fields>>
RmPrefixes ==
    << <<<<"t", "o", "t", "a", "l", " ", "l", "e", "n", "g", "t", "h">>, "total_length", 2>>,
       <<<<"b", "a", "s", "e", "s", " ", "m", "a", "s", "k", "e", "d">>, "total_masked", 2>>,
       <<<<"T", "o", "t", "a", "l", " ", "i", "n", "t", "e", "r", "s", "p", "e", "r", "s", "e", "d">>,
         "interspersed", 3>>,
       <<<<"D", "N", "A", " ", "t", "r", "a", "n", "s", "p", "o", "s", "o", "n", "s">>, "dna", 3>>,
       <<<<"L", "T", "R", " ", "e", "l", "e", "m", "e", "n", "t", "s">>, "ltr", 3>>,
       <<<<"L", "I", "N", "E", "s">>, "line", 2>>,
       <<<<"S", "I", "N", "E", "s">>, "sine", 2>>,
       <<<<"S", "m", "a", "l", "l", " ", "R", "N", "A">>, "small_rna", 3>>,
       <<<<"U", "n", "c", "l", "a", "s", "s", "i", "f", "i", "e", "d">>, "unclassified", 2>> >>

\* the first branch of the chain the stripped line takes, 0 for the else
RmBranch(line) ==
    LET hits == {k \in 1..Len(RmPrefixes) : StartsWith(line, RmPrefixes[k][1])}
    IN  IF hits = {} THEN 0 ELSE CHOOSE k \in hits : \A j \in hits : k <= j

\* one iteration of the for loop of parse_rm_table
RmStep(st, raw) ==
    IF Len(raw) = 0 \/ raw[1] \in {"-", "="} THEN st
    ELSE LET line   == LStrip(raw, " ")
             fields == SplitWs(line)
             k      == RmBranch(line)
         IN  IF k = 0 THEN st
             ELSE IF RmPrefixes[k][3] + 1 > Len(fields)
             THEN [st EXCEPT !.status = "IndexError"]
             ELSE IF ~CanInt(fields[RmPrefixes[k][3] + 1])
             THEN [st EXCEPT !.status = "ValueError"]
             ELSE [st EXCEPT !.rep_props[RmPrefixes[k][2]] =
                                 IntOf(fields[RmPrefixes[k][3] + 1])]

RECURSIVE RmLoop(_, _)
\* the for loop of parse_rm_table; an exception leaves it
RmLoop(st, lines) ==
    IF Len(lines) = 0 \/ st.status # "running" THEN st
    ELSE RmLoop(RmStep(st, Head(lines)), Tail(lines))

\* parse_rm_table(rm_table, sequence_id): the file is opened in a with
\* statement, which closes it on return and on exception alike
parse_rm_table(lines, gz, sequence_id) ==
    LET st == RmLoop([status |-> "running", rep_props |-> RepProp(sequence_id)],
                     lines)
    IN  [status    |-> IF st.status = "running" THEN "returned" ELSE st.status,
         rep_props |-> st.rep_props,
         open      |-> {}]

RECURSIVE FracDigits(_, _, _)
\* the first k decimals of r / total, for 0 <= r < total
FracDigits(r, total, k) ==
    IF k = 0 THEN 0
    ELSE ((r * 10) \div total) * 10 ^ (k - 1)
         + FracDigits((r * 10) % total, total, k - 1)

\* value / total for 0 <= value and 0 < total, to 9 decimals
Ratio(value, total) ==
    [m |-> (value \div total) * 10 ^ 9 + FracDigits(value % total, total, 9),
     s |-> 9]

\* the value/proportion pair of columns of one RepProp attribute
PropPair(value, total) == <<IntStr(value), FormatG(Ratio(value, total), 8)>>

\* the data row of print_table, built only when total is not 0
PropsRow(p) ==
    <<p.seq_id, IntStr(p.total_length)>>
    \o <<IntStr(p.total_masked), FormatG(Ratio(p.total_masked, p.total_length), 8)>>
    \o PropPair(p.interspersed, p.total_length)
    \o PropPair(p.dna, p.total_length)
    \o PropPair(p.ltr, p.total_length)
    \o PropPair(p.line, p.total_length)
    \o PropPair(p.sine, p.total_length)
    \o PropPair(p.small_rna, p.total_length)
    \o PropPair(p.unclassified, p.total_length)

\* the divisions of the row raise ZeroDivisionError
DivisionFails(p) == p.total_length = 0

\* mutant of print_table: a zero total skips the row silently
print_table_skipping(p) ==
    IF DivisionFails(p)
    THEN [status |-> "returned", header |-> TRUE, rows |-> <<>>]
    ELSE [status |-> "returned", header |-> TRUE, rows |-> <<PropsRow(p)>>]

\* print_table(rep_props, basename, outdir): the header is written first,
\* then the row is built and written; ZeroDivisionError leaves the with block
\* before fh.write(row)
print_table(p) ==
    IF DivisionFails(p)
    THEN [status |-> "ZeroDivisionError", header |-> TRUE, rows |-> <<>>]
    ELSE [status |-> "returned", header |-> TRUE, rows |-> <<PropsRow(p)>>]

-----------------------------------------------------------------------------
(* Input files *)

\* the files of at most n lines, each line from the set lines
Files(lines, n) == UNION {[1..k -> lines] : k \in 0..n}

\* a well-formed cross_match record line: 11 columns, the parser reads
\* columns 0, 4, 5, 6, 8, 9 and 10
XmLine(score, chrom, start, end, strand, name, class) ==
    Join(<<score, <<"1", ".", "5">>, <<"0", ".", "0">>, <<"0", ".", "0">>, chrom, start, end,
           <<"(", "0", ")">>, strand, name, class>>, " ")

\* score 25, c:10-20, +, A, S/a
XmA == XmLine(<<"2", "5">>, <<"c">>, <<"1", "0">>, <<"2", "0">>, <<"+">>, <<"A">>, <<"S", "/", "a">>)
\* score 1234567, c:10-30, C, B, L/a: same start as XmA
XmB == XmLine(<<"1", "2", "3", "4", "5", "6", "7">>, <<"c">>, <<"1", "0">>, <<"3", "0">>, <<"C">>, <<"B">>, <<"L", "/", "a">>)
\* score 30, c:5-8, +, A, S/b: the family of A differs, the class does not
XmA2 == XmLine(<<"3", "0">>, <<"c">>, <<"5">>, <<"8">>, <<"+">>, <<"A">>, <<"S", "/", "b">>)
\* score 40, d:7-9, C, D, L/b
XmD == XmLine(<<"4", "0">>, <<"d">>, <<"7">>, <<"9">>, <<"C">>, <<"D">>, <<"L", "/", "b">>)
\* a record line cut after its start column (6 columns)
XmShort6 == <<"3", "0", "0", " ", "0", ".", "0", " ", "0", ".", "0", " ", "0", ".", "0", " ", "e", " ", "3">>
\* a record line cut after its repeat name (10 columns)
XmShort10 == <<"7", "7", " ", "0", ".", "0", " ", "0", ".", "0", " ", "0", ".", "0", " ", "e", " ", "4", " ", "6", " ", "(", "0", ")", " ", "+", " ", "Z">>
\* a record line whose start column is no number
XmBadStart == XmLine(<<"5", "0">>, <<"c">>, <<"x", "5">>, <<"8">>, <<"+">>, <<"A">>, <<"S", "/", "a">>)
\* the column header of the .out file, indented as RepeatMasker writes it
XmHeader == <<" ", " ", " ", "S", "W", " ", " ", " ", "p", "e", "r", "c", " ", "p", "e", "r", "c">>
\* a comment line
XmComment == <<"#", "c">>
\* a line of blanks
XmBlank == <<" ", " ">>
\* an empty line
EmptyLine == <<>>

\* the cross_match lines of the parser specification
CrossLines ==
    {XmA, XmB, XmShort6, XmShort10, XmBadStart, XmHeader, XmComment, XmBlank,
     EmptyLine}

\* the cross_match lines of the whole-program specification
MainCrossLines == {XmA, XmB, XmA2, XmD}

\* a divsum record line: class/family, repeat id, absLen, wellCharLen, Kimura%
DsLine(class, id, abs_len, wchar_len, kimura) ==
    Join(<<class, id, abs_len, wchar_len, kimura>>, "\t")

\* A: S/a, wellCharLen 100
DsA == DsLine(<<"S", "/", "a">>, <<"A">>, <<"5", "0", "0">>, <<"1", "0", "0">>, <<"1", "2", ".", "3", "4", "5", "6", "7", "8">>)
\* A again: wellCharLen 99
DsA99 == DsLine(<<"S", "/", "a">>, <<"A">>, <<"4", "0", "0">>, <<"9", "9">>, <<"2", ".", "5">>)
\* A again: wellCharLen 150
DsA150 == DsLine(<<"S", "/", "a">>, <<"A">>, <<"6", "0", "0">>, <<"1", "5", "0">>, <<"0", ".", "5">>)
\* D: S/a, wellCharLen 99
DsD == DsLine(<<"S", "/", "a">>, <<"D">>, <<"5", "0">>, <<"9", "9">>, <<"1", ".", "5">>)
\* Z: L/a, wellCharLen 100, matches no annotation
DsZ == DsLine(<<"L", "/", "a">>, <<"Z">>, <<"7", "0">>, <<"1", "0", "0">>, <<"0", ".", "2", "5">>)
\* a record line whose absLen is no number
DsBadLen == DsLine(<<"S", "/", "a">>, <<"B">>, <<"x">>, <<"1", "0">>, <<"1", ".", "0">>)
\* the column header of the divsum table
DsHeader == DsLine(<<"C", "l", "a", "s", "s">>, <<"R", "e", "p", "e", "a", "t">>, <<"a", "b", "s", "L", "e", "n">>, <<"w", "e", "l", "l", "C", "h", "a", "r", "L", "e", "n">>, <<"K", "i", "m", "u", "r", "a", "%">>)
\* a placeholder row
DsArtefact == DsLine(<<"A", "R", "T", "E", "F", "A", "C", "T">>, <<"A">>, <<"9">>, <<"2", "0", "0">>, <<"1", ".", "0">>)
\* a row of the coverage matrix that follows the summary: not 5 columns
DsFour == <<"D", "i", "v", "\t", "S", "/", "a", "\t", "L", "/", "a", "\t", "S", "/", "b">>
\* a comment line
DsComment == <<"#", "c">>

\* the divsum lines of the parser specification
DivLines ==
    {DsA, DsA99, DsA150, DsZ, DsBadLen, DsHeader, DsArtefact, DsFour,
     DsComment, EmptyLine}

\* the divsum lines of the whole-program specification
MainDivLines == {DsA, DsD, DsZ}

\* the -m values tried: not given, and 100
MinLengths == {NoMinLength, 100}

\* the -m values of the whole-program specification
MainMinLengths == {NoMinLength, 100}

\* lines of the summary table
RmTotal == <<"t", "o", "t", "a", "l", " ", "l", "e", "n", "g", "t", "h", ":", " ", " ", " ", "1", "0", "0", "0", " ", "b", "p", " ", " ", "(", "1", "0", "0", "0", " ", "b", "p", " ", "e", "x", "c", "l", "u", "d", "i", "n", "g", " ", "N", "/", "X", "-", "r", "u", "n", "s", ")">>
RmTotalZero == <<"t", "o", "t", "a", "l", " ", "l", "e", "n", "g", "t", "h", ":", " ", "0", " ", "b", "p">>
RmTotalCut == <<"t", "o", "t", "a", "l", " ", "l", "e", "n", "g", "t", "h", ":">>
RmMasked == <<"b", "a", "s", "e", "s", " ", "m", "a", "s", "k", "e", "d", ":", " ", " ", " ", " ", " ", "2", "5", "0", " ", "b", "p", " ", "(", " ", "2", "5", ".", "0", "0", " ", "%", ")">>
RmLINEs == <<" ", " ", " ", "L", "I", "N", "E", "s", ":", " ", " ", " ", "2", " ", " ", "3", "3", "3", " ", "b", "p", " ", " ", "3", "3", ".", "3", "0", " ", "%">>
RmSines == <<"S", "I", "N", "E", "s", ":", " ", " ", "1", " ", " ", "n", "/", "a">>
RmBorder == <<"=", "=", "=", "=", "=", "=", "=", "=", "=", "=", "=", "=", "=", "=", "=", "=", "=", "=">>
RmOther == <<"f", "i", "l", "e", " ", "n", "a", "m", "e", ":", " ", "x", ".", "f", "a">>

\* the summary table lines tried
RmTableLines ==
    {RmTotal, RmTotalZero, RmTotalCut, RmMasked, RmLINEs, RmSines, RmBorder,
     RmOther, EmptyLine}

\* args.basename, passed to parse_rm_table as the sequence id
Basename == <<"R", "M">>

-----------------------------------------------------------------------------
(* main() of parse_repeat_masker_out.py *)

\* a call that has not happened
NotRun == [status |-> "not run"]

\* the state before main() of parse_repeat_masker_out.py parses anything,
\* for given files and options
MergeStart(xm, xgz, ds, dgz, m, prompt) ==
    /\ pc = "start"
    /\ crossmatch_f = xm /\ cross_gz = xgz
    /\ divsum_f = ds /\ divsum_gz = dgz
    /\ min_len = m /\ gc_prompt = prompt
    /\ cross_res = NotRun /\ divsum_res = NotRun
    /\ merged = NotRun /\ clean = NotRun
    /\ rm_table = <<>> /\ rm_gz = FALSE
    /\ rm_res = NotRun /\ props_out = NotRun

\* whole program: both tables hold well-formed records only, plain paths,
\* prompt finalisation
Init ==
    \E xm \in Files(MainCrossLines, MaxMainCross),
       ds \in Files(MainDivLines, MaxMainDiv),
       m \in MainMinLengths :
        MergeStart(xm, FALSE, ds, FALSE, m, TRUE)

\* cross_match parser: every kind of line, plain and '.gz' paths, either
\* kind of interpreter
InitCross ==
    \E xm \in Files(CrossLines, MaxCrossLines), xgz \in BOOLEAN,
       prompt \in BOOLEAN :
        MergeStart(xm, xgz, <<DsA>>, FALSE, NoMinLength, prompt)

\* divsum parser: every kind of line, plain and '.gz' paths, either kind of
\* interpreter
InitDivsum ==
    \E ds \in Files(DivLines, MaxDivLines), dgz \in BOOLEAN, m \in MinLengths,
       prompt \in BOOLEAN :
        MergeStart(<<XmA>>, FALSE, ds, dgz, m, prompt)

\* cross_match = parse_crossmatch_table(args.cross_match)
ParseCrossmatch ==
    /\ pc = "start"
    /\ cross_res' = parse_crossmatch_table(crossmatch_f, cross_gz, gc_prompt)
    /\ pc' = IF cross_res'.status = "returned" THEN "cross_done" ELSE "crashed"
    /\ UNCHANGED <<crossmatch_f, cross_gz, divsum_f, divsum_gz, min_len,
                   gc_prompt, divsum_res, merged, clean, rm_table, rm_gz,
                   rm_res, props_out>>

\* divsum = parse_divsum_table(args.divsum, args.min_length)
ParseDivsum ==
    /\ pc = "cross_done"
    /\ divsum_res' = parse_divsum_table(divsum_f, divsum_gz, min_len, gc_prompt)
    /\ pc' = IF divsum_res'.status = "returned" THEN "divsum_done" ELSE "crashed"
    /\ UNCHANGED <<crossmatch_f, cross_gz, divsum_f, divsum_gz, min_len,
                   gc_prompt, cross_res, merged, clean, rm_table, rm_gz,
                   rm_res, props_out>>

\* merge_cross_divsum(cross_match, divsum, args.outdir, args.basename)
MergeCrossDivsum ==
    /\ pc = "divsum_done"
    /\ merged' = merge_cross_divsum(cross_res.cross_match, divsum_res.divsum)
    /\ pc' = IF merged'.status = "returned" THEN "merged" ELSE "crashed"
    /\ UNCHANGED <<crossmatch_f, cross_gz, divsum_f, divsum_gz, min_len,
                   gc_prompt, cross_res, divsum_res, clean, rm_table, rm_gz,
                   rm_res, props_out>>

\* clean_divsum_file(divsum, args.outdir, args.basename)
CleanDivsumFile ==
    /\ pc = "merged"
    /\ clean' = clean_divsum_file(divsum_res.divsum)
    /\ pc' = "finished"
    /\ UNCHANGED <<crossmatch_f, cross_gz, divsum_f, divsum_gz, min_len,
                   gc_prompt, cross_res, divsum_res, merged, rm_table, rm_gz,
                   rm_res, props_out>>

Next == ParseCrossmatch \/ ParseDivsum \/ MergeCrossDivsum \/ CleanDivsumFile

Spec == Init /\ [][Next]_vars

SpecCross == InitCross /\ [][Next]_vars

SpecDivsum == InitDivsum /\ [][Next]_vars

-----------------------------------------------------------------------------
(* main() of extract_repmap_props.py *)

InitProps ==
    \E t \in Files(RmTableLines, MaxRmLines), gz \in BOOLEAN :
        /\ pc = "props_start"
        /\ rm_table = t /\ rm_gz = gz
        /\ rm_res = NotRun /\ props_out = NotRun
        /\ crossmatch_f = <<>> /\ cross_gz = FALSE
        /\ divsum_f = <<>> /\ divsum_gz = FALSE
        /\ min_len = NoMinLength /\ gc_prompt = TRUE
        /\ cross_res = NotRun /\ divsum_res = NotRun
        /\ merged = NotRun /\ clean = NotRun

\* repeat_proportions = parse_rm_table(args.rm_table, args.basename)
ParseRmTable ==
    /\ pc = "props_start"
    /\ rm_res' = parse_rm_table(rm_table, rm_gz, Basename)
    /\ pc' = IF rm_res'.status = "returned" THEN "table_parsed" ELSE "crashed"
    /\ UNCHANGED <<crossmatch_f, cross_gz, divsum_f, divsum_gz, min_len,
                   gc_prompt, cross_res, divsum_res, merged, clean, rm_table,
                   rm_gz, props_out>>

\* print_table(repeat_proportions, args.basename, args.outdir)
PrintTable ==
    /\ pc = "table_parsed"
    /\ props_out' = print_table(rm_res.rep_props)
    /\ pc' = IF props_out'.status = "returned" THEN "finished" ELSE "crashed"
    /\ UNCHANGED <<crossmatch_f, cross_gz, divsum_f, divsum_gz, min_len,
                   gc_prompt, cross_res, divsum_res, merged, clean, rm_table,
                   rm_gz, rm_res>>

NextProps == ParseRmTable \/ PrintTable

SpecProps == InitProps /\ [][NextProps]_vars

-----------------------------------------------------------------------------
(* Properties of parse_crossmatch_table *)

\* a record line that has every column the parser reads
WellFormed(line) == CrossData(line) /\ Len(SplitWs(line)) >= 11

\* a record line too short for the columns the parser reads
TooShort(line) == CrossData(line) /\ Len(SplitWs(line)) < 11

\* the annotation a well-formed record line describes, from its own columns
OwnAnnot(line) ==
    LET f == SplitWs(line)
    IN  [name |-> f[10], r_class |-> SplitOn(f[11], "/")[1], r_family |-> f[11],
         chrom |-> f[5], start |-> IntOf(f[6]), end |-> IntOf(f[7]),
         strand |-> IF f[9] = <<"C">> THEN <<"-">> ELSE f[9],
         score |-> IntOf(f[1])]

RECURSIVE OwnAnnots(_)
\* one annotation per well-formed record line, in file order
OwnAnnots(lines) ==
    IF Len(lines) = 0 THEN <<>>
    ELSE IF WellFormed(Head(lines))
    THEN <<OwnAnnot(Head(lines))>> \o OwnAnnots(Tail(lines))
    ELSE OwnAnnots(Tail(lines))

\* the file holds comments, empty lines, headers and record lines whose
\* number columns are numbers: nothing but a short record line is wrong
OnlyShortLinesWrong(lines) ==
    \A i \in 1..Len(lines) :
        \/ StartsWith(lines[i], <<"#">>)
        \/ Len(lines[i]) = 0
        \/ /\ Len(SplitWs(lines[i])) > 0
           /\ \/ ~IsNumeric(SplitWs(lines[i])[1])
              \/ TooShort(lines[i])
              \/ /\ WellFormed(lines[i])
                 /\ CanInt(SplitWs(lines[i])[6])
                 /\ CanInt(SplitWs(lines[i])[7])

\* C1: a record line too short for columns 4, 5, 6, 8, 9 and 10 yields no
\* annotation: the parser returns, the list holds exactly one annotation per
\* well-formed record line, built from that line's own columns, and 'kept'
\* equals the length of the list.
C1_ShortLineExcluded ==
    (cross_res # NotRun /\ OnlyShortLinesWrong(crossmatch_f)) =>
        /\ cross_res.status = "returned"
        /\ cross_res.cross_match = OwnAnnots(crossmatch_f)
        /\ cross_res.kept = Len(cross_res.cross_match)

-----------------------------------------------------------------------------
(* Properties of merge_cross_divsum *)

\* the annotations and the index merge_cross_divsum was called with
Annots == cross_res.cross_match
Index == divsum_res.divsum

\* annotation a and the record of its name disagree on the part of the
\* family string before the first '/'
Disagree(a) ==
    /\ a.name \in DOMAIN Index
    /\ SplitOn(a.r_family, "/")[1] # SplitOn(Index[a.name].r_family, "/")[1]

BadPositions ==
    {k \in 1..Len(Annots) : Disagree(SortedByStart(Annots)[k])}

C4_DivergenceColumns ==
    merged # NotRun =>
        \A k \in 1..Len(merged.rows) :
            LET row == merged.rows[k]
            IN  IF row.Name \in DOMAIN Index
                THEN /\ row.WellCharLen = IntStr(Index[row.Name].wchar_len)
                     /\ row.Kimura = FormatG(Index[row.Name].kimura, 6)
                ELSE row.WellCharLen = NoneStr /\ row.Kimura = NoneStr

\* C4 happens: an unmatched row written after a matched one
C4_Witness ==
    /\ merged # NotRun
    /\ \E j, k \in 1..Len(merged.rows) :
           /\ j < k
           /\ merged.rows[j].Name \in DOMAIN Index
           /\ merged.rows[k].Name \notin DOMAIN Index

\* row is the row of annotation a, as far as the annotation's columns go
RowOf(row, a) ==
    /\ row.Chromosome = a.chrom
    /\ row.StartBP = IntStr(a.start)
    /\ row.EndBP = IntStr(a.end)
    /\ row.Strand = a.strand
    /\ row.Name = a.name
    /\ row.Family = a.r_family
    /\ row.SwScore = FormatG(DecOfInt(a.score), 6)

\* the one-to-one maps of 1..n onto itself
Bijections(n) ==
    {p \in [1..n -> 1..n] : \A i, j \in 1..n : i # j => p[i] # p[j]}

\* C5: the rows of a completed merge are the annotations in ascending order of
\* start, equal starts in the order they were read: row k is the row of
\* annotation p[k] for a permutation p that is ascending in start and
\* increasing on ties.
C5_StableSortByStart ==
    (merged # NotRun /\ merged.status = "returned") =>
        /\ Len(merged.rows) = Len(Annots)
        /\ \E p \in Bijections(Len(Annots)) :
               /\ \A k \in 1..Len(Annots) : RowOf(merged.rows[k], Annots[p[k]])
               /\ \A j, k \in 1..Len(Annots) :
                      j < k => \/ Annots[p[j]].start < Annots[p[k]].start
                               \/ /\ Annots[p[j]].start = Annots[p[k]].start
                                  /\ p[j] < p[k]

\* C5 happens: a completed merge of annotations read out of start order, two
\* different ones with the same start
C5_Witness ==
    /\ merged # NotRun
    /\ merged.status = "returned"
    /\ \E i, j \in 1..Len(Annots) : i < j /\ Annots[i].start > Annots[j].start
    /\ \E i, j \in 1..Len(Annots) :
           Annots[i].start = Annots[j].start /\ Annots[i] # Annots[j]

-----------------------------------------------------------------------------
(* Properties of parse_divsum_table and clean_divsum_file *)

\* the wellCharLen column of a candidate line, as a number
WellCharLenOf(line) == IntOf(SplitOn(line, "\t")[4])

\* the repeat identifier column of a candidate line
IdOf(line) == SplitOn(line, "\t")[2]

\* the line numbers of the candidate records of the divsum file
Candidates == {i \in 1..Len(divsum_f) : DivsumCandidate(divsum_f[i])}

\* the candidates below the threshold, and the others
Below == {i \in Candidates : WellCharLenOf(divsum_f[i]) < min_len}
AtLeast == {i \in Candidates : WellCharLenOf(divsum_f[i]) >= min_len}

\* C6: a candidate record is discarded exactly when its well-characterized
\* length is strictly below min_len: no record of the returned index is below
\* it, every candidate at or above it is in the index under its identifier,
\* 'discard' counts the candidates below it, and 'records' is 'discard' plus
\* the number of insertions.
C6_MinLengthFilter ==
    (divsum_res # NotRun /\ divsum_res.status = "returned") =>
        /\ \A id \in DOMAIN Index : Index[id].wchar_len >= min_len
        /\ \A i \in AtLeast : IdOf(divsum_f[i]) \in DOMAIN Index
        /\ \A i \in Below :
               IdOf(divsum_f[i]) \in DOMAIN Index =>
                   \E j \in AtLeast : IdOf(divsum_f[j]) = IdOf(divsum_f[i])
        /\ divsum_res.discard = Cardinality(Below)
        /\ divsum_res.records = divsum_res.discard + Cardinality(AtLeast)

\* C6 happens: a record exactly at the threshold was kept and one just below
\* it was discarded
C6_Witness ==
    /\ divsum_res # NotRun
    /\ divsum_res.status = "returned"
    /\ divsum_res.discard > 0
    /\ \E i \in Below : WellCharLenOf(divsum_f[i]) = min_len - 1
    /\ \E id \in DOMAIN Index : Index[id].wchar_len = min_len

\* the retained lines carrying identifier id
RetainedLines(id) == {i \in AtLeast : IdOf(divsum_f[i]) = id}

\* the record a candidate line describes, from its own columns
OwnRecord(line) ==
    LET f == SplitOn(line, "\t")
    IN  [r_class |-> SplitOn(f[1], "/")[1], r_family |-> f[1], r_id |-> f[2],
         abs_len |-> IntOf(f[3]), wchar_len |-> IntOf(f[4]),
         kimura |-> [m |-> FloatOf(f[5]).m, s |-> FloatOf(f[5]).s + 2]]

\* C7: the index holds, for every identifier, the record of the last line in
\* file order among the lines with that identifier that pass the classifier
\* and the filter, and holds nothing else; a later duplicate that is
\* discarded replaces nothing.
C7_LastWriteWins ==
    (divsum_res # NotRun /\ divsum_res.status = "returned") =>
        /\ DOMAIN Index = {IdOf(divsum_f[i]) : i \in AtLeast}
        /\ \A id \in DOMAIN Index :
               \E i \in RetainedLines(id) :
                   /\ \A j \in RetainedLines(id) : j <= i
                   /\ Index[id] = OwnRecord(divsum_f[i])

\* C7 happens: an identifier retained twice with different records, then
\* once more on a line that is discarded
C7_Witness ==
    /\ divsum_res # NotRun
    /\ divsum_res.status = "returned"
    /\ \E id \in DOMAIN Index :
           /\ \E i, j \in RetainedLines(id) :
                  i < j /\ OwnRecord(divsum_f[i]) # OwnRecord(divsum_f[j])
           /\ \E d \in Below :
                  /\ IdOf(divsum_f[d]) = id
                  /\ \A j \in RetainedLines(id) : j < d

\* C9: the cleaned divsum export has exactly one data row per record of the
\* index, each row holding that record, in ascending order of identifier.
C9_CleanDivsumSorted ==
    clean # NotRun =>
        /\ Len(clean.rows) = Cardinality(DOMAIN Index)
        /\ \A id \in DOMAIN Index :
               \E k \in 1..Len(clean.rows) :
                   /\ clean.rows[k].Repeat = id
                   /\ clean.rows[k].Class = Index[id].r_family
                   /\ clean.rows[k].absLen = IntStr(Index[id].abs_len)
                   /\ clean.rows[k].wellCharLen = IntStr(Index[id].wchar_len)
                   /\ clean.rows[k].Kimura = FormatG(Index[id].kimura, 8)
        /\ \A j, k \in 1..Len(clean.rows) :
               j < k => StrLess(clean.rows[j].Repeat, clean.rows[k].Repeat)

\* C9 happens: an export of two records read in descending order of
\* identifier, one of them matching no annotation, from a file that also
\* held a discarded record or a placeholder row
C9_Witness ==
    /\ clean # NotRun
    /\ Len(clean.rows) >= 2
    /\ \E id \in DOMAIN Index : \A i \in 1..Len(Annots) : Annots[i].name # id
    /\ \E i, j \in AtLeast :
           i < j /\ StrLess(IdOf(divsum_f[j]), IdOf(divsum_f[i]))
    /\ \/ Below # {}
       \/ \E i \in 1..Len(divsum_f) :
              SplitOn(divsum_f[i], "\t")[1] \in DivsumSkip

-----------------------------------------------------------------------------
(* Properties of extract_repmap_props.py *)

\* no line of the summary table is a 'total length' line
NoTotalLine ==
    \A i \in 1..Len(rm_table) :
        \/ Len(rm_table[i]) = 0
        \/ rm_table[i][1] \in {"-", "="}
        \/ ~StartsWith(LStrip(rm_table[i], " "), RmPrefixes[1][1])

\* C8: with total_length 0, which it is when the table has no 'total length'
\* line, print_table fails and writes no data row; when print_table returns,
\* the file holds the header and exactly 1 data row of 18 columns.
C8_ZeroTotalIsFatal ==
    /\ (rm_res # NotRun /\ rm_res.status = "returned" /\ NoTotalLine) =>
           rm_res.rep_props.total_length = 0
    /\ props_out # NotRun =>
           IF rm_res.rep_props.total_length = 0
           THEN /\ props_out.status = "ZeroDivisionError"
                /\ props_out.rows = <<>>
                /\ pc = "crashed"
           ELSE /\ props_out.status = "returned"
                /\ props_out.header
                /\ Len(props_out.rows) = 1
                /\ Len(props_out.rows[1]) = 18

\* C8 happens: a table with a 'bases masked' line and no 'total length' line
\* went through print_table
C8_Witness ==
    /\ props_out # NotRun
    /\ NoTotalLine
    /\ rm_res.rep_props.total_masked > 0
    /\ props_out.status = "ZeroDivisionError"

-----------------------------------------------------------------------------
(* Input file handles *)

\* C10: when a parser has returned or raised, no input file handle it opened
\* is still open.
C10_HandlesReleased ==
    /\ cross_res # NotRun => cross_res.open = {}
    /\ divsum_res # NotRun => divsum_res.open = {}
    /\ rm_res # NotRun => rm_res.open = {}

====
